---- MODULE Spec2Model ----
(***************************************************************************)
(* Cache-replacement simulator: LRUCache, FIFOCache and LFUCache behind    *)
(* ICachePolicy, driven by CacheSimulator::run as main() does: the same    *)
(* access sequence is replayed through one simulator per policy, one       *)
(* after the other.                                                        *)
(***************************************************************************)
EXTENDS Integers, Sequences, FiniteSets, TLC

(* ------------------------------ bounds -------------------------------- *)
NumKeys == 4
MaxLen == 5
MaxCap == 3

(* --------------------------- program inputs --------------------------- *)
KeyNames == <<"A", "B", "C", "D", "E">>
Keys == {KeyNames[i] : i \in 1..(IF NumKeys < 5 THEN NumKeys ELSE 5)}
DemoCapacity == 4
DemoAccesses ==
    <<"A", "B", "C", "D", "A", "E", "A", "B", "A", "C", "D", "E", "D", "C">>
AccessSequences == UNION {[1..n -> Keys] : n \in 0..MaxLen}

NoKey == "-"

(* ------------------------ std::list / std::queue ---------------------- *)
Range(s) == {s[i] : i \in 1..Len(s)}
push_front(s, x) == <<x>> \o s
push_back(s, x) == Append(s, x)
back(s) == IF s = <<>> THEN NoKey ELSE s[Len(s)]
front(s) == IF s = <<>> THEN NoKey ELSE s[1]
pop_back(s) == IF s = <<>> THEN s ELSE SubSeq(s, 1, Len(s) - 1)
pop_front(s) == IF s = <<>> THEN s ELSE SubSeq(s, 2, Len(s))
NodeOf(s, x) ==
    IF x \in Range(s) THEN CHOOSE i \in 1..Len(s) : s[i] = x ELSE 0
erase(s, i) ==
    IF i \in 1..Len(s) THEN SubSeq(s, 1, i - 1) \o SubSeq(s, i + 1, Len(s))
    ELSE s
splice_front(s, i) == IF i \in 1..Len(s) THEN <<s[i]>> \o erase(s, i) ELSE s

(* ---------------------------- ICachePolicy ---------------------------- *)
ICachePolicy_raw(cap) == [capacity |-> cap, hits |-> 0, misses |-> 0]

ICachePolicy(cap) ==
    [capacity |-> IF cap = 0 THEN 1 ELSE cap, hits |-> 0, misses |-> 0]

(* ------------------------------ LRUCache ------------------------------ *)
LRUCache(cap) == ICachePolicy(cap) @@ [lru_list |-> <<>>, cache_map |-> {}]

LRU_print_cache_state(self) == self.lru_list

\* the object once print_cache_state has returned: the loop reads lru_list
LRU_after_print(self) == self

LRU_hit_no_move(self, key) == [self EXCEPT !.hits = @ + 1]

LRU_hit(self, key) ==
    [self EXCEPT !.hits = @ + 1,
                 !.lru_list = splice_front(@, NodeOf(@, key))]

LRU_full_gt(self) == Len(self.lru_list) > self.capacity

LRU_full(self) == Len(self.lru_list) >= self.capacity

LRU_victim(self) == back(self.lru_list)

LRU_evict(self) ==
    [self EXCEPT !.cache_map = @ \ {LRU_victim(self)},
                 !.lru_list = pop_back(@)]

LRU_insert_list_only(self, key) ==
    [self EXCEPT !.lru_list = push_front(@, key)]

LRU_insert(self, key) ==
    [self EXCEPT !.lru_list = push_front(@, key),
                 !.cache_map = @ \cup {key}]

LRU_access(self, key) ==
    IF key \in self.cache_map
    THEN LET after == LRU_hit(self, key)
         IN  [self |-> LRU_after_print(after),
              line |-> [key |-> key, outcome |-> "HIT", evicting |-> FALSE,
                        evicted |-> NoKey, from_empty |-> FALSE,
                        state |-> LRU_print_cache_state(after)]]
    ELSE LET counted == [self EXCEPT !.misses = @ + 1]
             full == LRU_full(counted)
             after == LRU_insert(IF full THEN LRU_evict(counted) ELSE counted,
                                 key)
         IN  [self |-> LRU_after_print(after),
              line |-> [key |-> key, outcome |-> "MISS", evicting |-> full,
                        evicted |-> IF full THEN LRU_victim(self)
                                    ELSE NoKey,
                        from_empty |-> full /\ self.lru_list = <<>>,
                        state |-> LRU_print_cache_state(after)]]

(* ------------------------------ FIFOCache ----------------------------- *)
FIFOCache(cap) ==
    ICachePolicy(cap) @@ [fifo_queue |-> <<>>, cache_set |-> {}]

FIFO_print_cache_state(self) == self.fifo_queue

FIFO_after_print_drained(self) == [self EXCEPT !.fifo_queue = <<>>]

\* the object once print_cache_state has returned: the loop pops temp_q, a
\* copy of fifo_queue
FIFO_after_print(self) == self

FIFO_hit_refresh(self, key) ==
    [self EXCEPT !.hits = @ + 1,
                 !.fifo_queue = push_back(erase(@, NodeOf(@, key)), key)]

FIFO_hit(self, key) == [self EXCEPT !.hits = @ + 1]

FIFO_full(self) == Len(self.fifo_queue) >= self.capacity

FIFO_victim(self) == front(self.fifo_queue)

FIFO_evict_newest(self) ==
    [self EXCEPT !.fifo_queue = pop_back(@),
                 !.cache_set = @ \ {back(self.fifo_queue)}]

FIFO_evict(self) ==
    [self EXCEPT !.fifo_queue = pop_front(@),
                 !.cache_set = @ \ {FIFO_victim(self)}]

FIFO_insert_queue_only(self, key) ==
    [self EXCEPT !.fifo_queue = push_back(@, key)]

FIFO_insert(self, key) ==
    [self EXCEPT !.fifo_queue = push_back(@, key),
                 !.cache_set = @ \cup {key}]

FIFO_access(self, key) ==
    IF key \in self.cache_set
    THEN LET after == FIFO_hit(self, key)
         IN  [self |-> FIFO_after_print(after),
              line |-> [key |-> key, outcome |-> "HIT", evicting |-> FALSE,
                        evicted |-> NoKey, from_empty |-> FALSE,
                        state |-> FIFO_print_cache_state(after)]]
    ELSE LET counted == [self EXCEPT !.misses = @ + 1]
             full == FIFO_full(counted)
             after == FIFO_insert(IF full THEN FIFO_evict(counted)
                                  ELSE counted, key)
         IN  [self |-> FIFO_after_print(after),
              line |-> [key |-> key, outcome |-> "MISS", evicting |-> full,
                        evicted |-> IF full THEN FIFO_victim(self)
                                    ELSE NoKey,
                        from_empty |-> full /\ self.fifo_queue = <<>>,
                        state |-> FIFO_print_cache_state(after)]]

(* ------------------------------ LFUCache ------------------------------ *)
at(m, k) == IF k \in DOMAIN m THEN m ELSE [x \in DOMAIN m \cup {k} |->
                                              IF x = k THEN <<>> ELSE m[x]]
map_put(m, k, v) == [x \in DOMAIN m \cup {k} |-> IF x = k THEN v ELSE m[x]]
map_erase(m, k) == [x \in DOMAIN m \ {k} |-> m[x]]
MaxFreq(m) == CHOOSE f \in DOMAIN m \cup {0} : \A g \in DOMAIN m : g <= f

LFUCache(cap) ==
    ICachePolicy(cap) @@
    [cache_map |-> <<>>, freq_map |-> <<>>, min_frequency |-> 0]

RECURSIVE LFU_print_loop(_, _, _, _)
LFU_print_loop(self, current_freq, items_printed, printed) ==
    IF ~(items_printed < Cardinality(DOMAIN self.cache_map))
    THEN [groups |-> printed, terminates |-> TRUE]
    ELSE IF current_freq > MaxFreq(self.freq_map)
    THEN [groups |-> printed, terminates |-> FALSE]
    ELSE IF current_freq \in DOMAIN self.freq_map
            /\ self.freq_map[current_freq] # <<>>
    THEN LFU_print_loop(self, current_freq + 1,
                        items_printed + Len(self.freq_map[current_freq]),
                        Append(printed,
                               [freq |-> current_freq,
                                keys |-> self.freq_map[current_freq]]))
    ELSE LFU_print_loop(self, current_freq + 1, items_printed, printed)

LFU_print_cache_state(self) ==
    IF DOMAIN self.cache_map = {}
    THEN [groups |-> <<>>, terminates |-> TRUE]
    ELSE LFU_print_loop(self, self.min_frequency, 0, <<>>)

\* the object once print_cache_state has returned: count() and at() insert
\* no bucket into freq_map
LFU_after_print(self) == self

LFU_new_min_stale(old_list, old_freq, new_freq, min_frequency) ==
    min_frequency

LFU_new_min_eager(old_list, old_freq, new_freq, min_frequency) ==
    IF old_freq = min_frequency THEN new_freq ELSE min_frequency

LFU_new_min(old_list, old_freq, new_freq, min_frequency) ==
    IF old_list = <<>> /\ old_freq = min_frequency
    THEN new_freq ELSE min_frequency

LFU_update_frequency_no_erase(self, key) ==
    LET old_freq == self.cache_map[key]
        new_freq == old_freq + 1
        fm2 == at(at(self.freq_map, old_freq), new_freq)
        fm3 == [fm2 EXCEPT ![new_freq] = push_front(@, key)]
    IN  [self EXCEPT !.freq_map = fm3,
                     !.cache_map[key] = new_freq,
                     !.min_frequency =
                         LFU_new_min(fm3[old_freq], old_freq, new_freq, @)]

LFU_update_frequency(self, key) ==
    LET old_freq == self.cache_map[key]
        new_freq == old_freq + 1
        fm0 == at(self.freq_map, old_freq)
        fm1 == [fm0 EXCEPT ![old_freq] = erase(@, NodeOf(@, key))]
        fm2 == at(fm1, new_freq)
        fm3 == [fm2 EXCEPT ![new_freq] = push_front(@, key)]
    IN  [self EXCEPT !.freq_map = fm3,
                     !.cache_map[key] = new_freq,
                     !.min_frequency =
                         LFU_new_min(fm3[old_freq], old_freq, new_freq, @)]

LFU_hit_uncounted(self, key) == LFU_update_frequency(self, key)

LFU_hit(self, key) ==
    LFU_update_frequency([self EXCEPT !.hits = @ + 1], key)

LFU_full(self) == Cardinality(DOMAIN self.cache_map) >= self.capacity

LFU_victim(self) ==
    back(at(self.freq_map, self.min_frequency)[self.min_frequency])

LFU_evict(self) ==
    LET fm == at(self.freq_map, self.min_frequency)
        lfu_key == LFU_victim(self)
    IN  [self EXCEPT !.freq_map =
                         [fm EXCEPT ![self.min_frequency] = pop_back(@)],
                     !.cache_map = map_erase(@, lfu_key)]

LFU_insert_push_back(self, key) ==
    LET new_freq == 1
        fm == at(self.freq_map, new_freq)
    IN  [self EXCEPT !.freq_map = [fm EXCEPT ![new_freq] = push_back(@, key)],
                     !.cache_map = map_put(@, key, new_freq),
                     !.min_frequency = 1]

LFU_insert(self, key) ==
    LET new_freq == 1
        fm == at(self.freq_map, new_freq)
    IN  [self EXCEPT !.freq_map = [fm EXCEPT ![new_freq] = push_front(@, key)],
                     !.cache_map = map_put(@, key, new_freq),
                     !.min_frequency = 1]

LFU_access(self, key) ==
    IF key \in DOMAIN self.cache_map
    THEN LET after == LFU_hit(self, key)
         IN  [self |-> LFU_after_print(after),
              line |-> [key |-> key, outcome |-> "HIT", evicting |-> FALSE,
                        evicted |-> NoKey, from_empty |-> FALSE,
                        state |-> LFU_print_cache_state(after)]]
    ELSE LET counted == [self EXCEPT !.misses = @ + 1]
             full == LFU_full(counted)
             after == LFU_insert(IF full THEN LFU_evict(counted)
                                 ELSE counted, key)
         IN  [self |-> LFU_after_print(after),
              line |-> [key |-> key, outcome |-> "MISS", evicting |-> full,
                        evicted |-> IF full THEN LFU_victim(self) ELSE NoKey,
                        from_empty |->
                            full /\ at(self.freq_map, self.min_frequency)
                                        [self.min_frequency] = <<>>,
                        state |-> LFU_print_cache_state(after)]]

(* ----------------------------- print_stats ---------------------------- *)
NoStats == [printed |-> FALSE]

\* the percentage as the fraction num/den; divided tells whether the
\* division by den = hits + misses was carried out or the constant 0.0 used
hit_rate_unguarded(hits, misses) ==
    [divided |-> TRUE, num |-> hits * 100, den |-> hits + misses]

hit_rate(hits, misses) ==
    IF hits + misses > 0
    THEN [divided |-> TRUE, num |-> hits * 100, den |-> hits + misses]
    ELSE [divided |-> FALSE, num |-> 0, den |-> 1]

print_stats(self) ==
    [printed |-> TRUE, total |-> self.hits + self.misses,
     hits |-> self.hits, misses |-> self.misses,
     hit_rate |-> hit_rate(self.hits, self.misses)]

(* --------------------------- CacheSimulator --------------------------- *)
CacheSimulator_fifo_default(cap, policy_type) ==
    IF policy_type = "LRU" THEN LRUCache(cap)
    ELSE IF policy_type = "FIFO" THEN FIFOCache(cap)
    ELSE IF policy_type = "LFU" THEN LFUCache(cap)
    ELSE FIFOCache(cap)

CacheSimulator(cap, policy_type) ==
    IF policy_type = "LRU" THEN LRUCache(cap)
    ELSE IF policy_type = "FIFO" THEN FIFOCache(cap)
    ELSE IF policy_type = "LFU" THEN LFUCache(cap)
    ELSE LRUCache(cap)

\* cache->access(key): the call is dispatched on the class of the object
access(self, key) ==
    IF "lru_list" \in DOMAIN self THEN LRU_access(self, key)
    ELSE IF "fifo_queue" \in DOMAIN self THEN FIFO_access(self, key)
    ELSE LFU_access(self, key)

\* the first n iterations of run() on a simulator owning cache
RECURSIVE run(_, _, _)
run(cache, access_sequence, n) ==
    IF n = 0 THEN [self |-> cache, log |-> <<>>]
    ELSE LET before == run(cache, access_sequence, n - 1)
             r == access(before.self, access_sequence[n])
         IN  [self |-> r.self, log |-> Append(before.log, r.line)]

(* -------------------------------- main -------------------------------- *)
VARIABLES capacity, accesses, policy_type, sim_lru, sim_fifo, sim_lfu, pc, it,
          cout, stats

vars == <<capacity, accesses, policy_type, sim_lru, sim_fifo, sim_lfu, pc, it,
          cout, stats>>

Policies == {"LRU", "FIFO", "LFU"}

\* names the first simulator may be constructed with: the one main uses and
\* one that CacheSimulator does not know
UnknownPolicy == "MRU"
PolicyTypes == {"LRU", UnknownPolicy}

Init ==
    /\ \/ capacity \in 0..MaxCap /\ accesses \in AccessSequences
       \/ capacity = DemoCapacity /\ accesses = DemoAccesses
    /\ policy_type \in PolicyTypes
    /\ sim_lru = CacheSimulator(capacity, policy_type)
    /\ sim_fifo = CacheSimulator(capacity, "FIFO")
    /\ sim_lfu = CacheSimulator(capacity, "LFU")
    /\ pc = "sim_lru"
    /\ it = 1
    /\ cout = [p \in Policies |-> <<>>]
    /\ stats = [p \in Policies |-> NoStats]

sim_lru_access ==
    /\ pc = "sim_lru" /\ it <= Len(accesses)
    /\ LET r == access(sim_lru, accesses[it])
       IN  /\ sim_lru' = r.self
           /\ cout' = [cout EXCEPT !.LRU = Append(@, r.line)]
    /\ it' = it + 1
    /\ UNCHANGED <<capacity, accesses, policy_type, sim_fifo, sim_lfu, pc, stats>>

sim_lru_print_stats ==
    /\ pc = "sim_lru" /\ it > Len(accesses)
    /\ stats' = [stats EXCEPT !.LRU = print_stats(sim_lru)]
    /\ pc' = "sim_fifo" /\ it' = 1
    /\ UNCHANGED <<capacity, accesses, policy_type, sim_lru, sim_fifo, sim_lfu, cout>>

sim_fifo_access ==
    /\ pc = "sim_fifo" /\ it <= Len(accesses)
    /\ LET r == access(sim_fifo, accesses[it])
       IN  /\ sim_fifo' = r.self
           /\ cout' = [cout EXCEPT !.FIFO = Append(@, r.line)]
    /\ it' = it + 1
    /\ UNCHANGED <<capacity, accesses, policy_type, sim_lru, sim_lfu, pc, stats>>

sim_fifo_print_stats ==
    /\ pc = "sim_fifo" /\ it > Len(accesses)
    /\ stats' = [stats EXCEPT !.FIFO = print_stats(sim_fifo)]
    /\ pc' = "sim_lfu" /\ it' = 1
    /\ UNCHANGED <<capacity, accesses, policy_type, sim_lru, sim_fifo, sim_lfu, cout>>

sim_lfu_access ==
    /\ pc = "sim_lfu" /\ it <= Len(accesses)
    /\ LET r == access(sim_lfu, accesses[it])
       IN  /\ sim_lfu' = r.self
           /\ cout' = [cout EXCEPT !.LFU = Append(@, r.line)]
    /\ it' = it + 1
    /\ UNCHANGED <<capacity, accesses, policy_type, sim_lru, sim_fifo, pc, stats>>

sim_lfu_print_stats ==
    /\ pc = "sim_lfu" /\ it > Len(accesses)
    /\ stats' = [stats EXCEPT !.LFU = print_stats(sim_lfu)]
    /\ pc' = "done" /\ it' = 1
    /\ UNCHANGED <<capacity, accesses, policy_type, sim_lru, sim_fifo, sim_lfu, cout>>

Next ==
    \/ sim_lru_access
    \/ sim_lru_print_stats
    \/ sim_fifo_access
    \/ sim_fifo_print_stats
    \/ sim_lfu_access
    \/ sim_lfu_print_stats

Spec == Init /\ [][Next]_vars

TypeOK ==
    /\ pc \in {"sim_lru", "sim_fifo", "sim_lfu", "done"}
    /\ it \in 1..(Len(accesses) + 1)
    /\ \A p \in Policies : Len(cout[p]) <= Len(accesses)

(* ------------------------- shared vocabulary -------------------------- *)
Last(s) == s[Len(s)]
EffectiveCapacity == IF capacity = 0 THEN 1 ELSE capacity
ResidentLRU == sim_lru.cache_map
ResidentFIFO == sim_fifo.cache_set
ResidentLFU == DOMAIN sim_lfu.cache_map
Evictions(log) == {i \in 1..Len(log) : log[i].evicting}
Outcomes(log) == [i \in 1..Len(log) |-> log[i].outcome]
\* index of the latest access to k before position n of the sequence, 0 if none
LastTouch(k, n) ==
    LET touched == {i \in 1..(n - 1) : accesses[i] = k}
    IN  IF touched = {} THEN 0
        ELSE CHOOSE i \in touched : \A j \in touched : j <= i

(* C1: for LRU, FIFO and LFU the number of resident keys (index structure  *)
(* and ordered structure alike) never exceeds the effective capacity, i.e. *)
(* the requested capacity with zero raised to one.                         *)
C1_ResidentWithinCapacity ==
    /\ Cardinality(ResidentLRU) <= EffectiveCapacity
    /\ Len(sim_lru.lru_list) <= EffectiveCapacity
    /\ Cardinality(ResidentFIFO) <= EffectiveCapacity
    /\ Len(sim_fifo.fifo_queue) <= EffectiveCapacity
    /\ Cardinality(ResidentLFU) <= EffectiveCapacity

C1_Witness ==
    /\ pc = "done"
    /\ Evictions(cout.LRU) # {} /\ Cardinality(ResidentLRU) = EffectiveCapacity
    /\ Evictions(cout.FIFO) # {}
    /\ Cardinality(ResidentFIFO) = EffectiveCapacity
    /\ Evictions(cout.LFU) # {} /\ Cardinality(ResidentLFU) = EffectiveCapacity
    /\ EffectiveCapacity >= 2

(* C2: in each policy an access is counted as a hit exactly when the key   *)
(* was resident immediately before it; otherwise it is counted as a miss   *)
(* and the key is resident immediately after it.                           *)
C2_Counted(before, after, line, wasResident, residentAfter) ==
    IF wasResident
    THEN /\ after.hits = before.hits + 1 /\ after.misses = before.misses
         /\ line.outcome = "HIT"
    ELSE /\ after.misses = before.misses + 1 /\ after.hits = before.hits
         /\ line.outcome = "MISS"
         /\ residentAfter

C2_HitIffResident ==
    [][/\ sim_lru_access =>
            C2_Counted(sim_lru, sim_lru', Last(cout'.LRU),
                       accesses[it] \in ResidentLRU,
                       accesses[it] \in ResidentLRU')
       /\ sim_fifo_access =>
            C2_Counted(sim_fifo, sim_fifo', Last(cout'.FIFO),
                       accesses[it] \in ResidentFIFO,
                       accesses[it] \in ResidentFIFO')
       /\ sim_lfu_access =>
            C2_Counted(sim_lfu, sim_lfu', Last(cout'.LFU),
                       accesses[it] \in ResidentLFU,
                       accesses[it] \in ResidentLFU')]_vars

C2_Witness ==
    /\ pc = "done"
    /\ \A p \in Policies :
         /\ \E i \in 1..Len(cout[p]) : cout[p][i].outcome = "HIT"
         /\ \E i \in 1..Len(cout[p]) :
                cout[p][i].outcome = "MISS" /\ cout[p][i].evicting
    /\ sim_lru.hits > 0 /\ sim_fifo.hits > 0 /\ sim_lfu.hits > 0

(* C3: at every LFU eviction the evicted key is resident, its frequency is *)
(* at most that of every other resident key, and every other resident key  *)
(* of the same frequency was touched (inserted or hit) later than it.       *)
C3_VictimOK(before, after, victim, n) ==
    LET cm == before.cache_map
    IN  /\ victim \in DOMAIN cm
        /\ DOMAIN cm \ DOMAIN after.cache_map = {victim}
        /\ \A r \in DOMAIN cm \ {victim} :
             /\ cm[victim] <= cm[r]
             /\ cm[r] = cm[victim] => LastTouch(victim, n) < LastTouch(r, n)

C3_LFUEvictsLeastFrequentOldest ==
    [][sim_lfu_access /\ Last(cout'.LFU).evicting =>
           C3_VictimOK(sim_lfu, sim_lfu', Last(cout'.LFU).evicted, it)]_vars

\* an eviction that left a tied key of frequency 1 and a more frequent key
C3_Witness ==
    /\ pc = "done"
    /\ \E i \in Evictions(cout.LFU) :
         /\ Len(cout.LFU[i].state.groups) >= 2
         /\ Len(cout.LFU[i].state.groups[1].keys) >= 2

(* C4: whenever the LFU cache is non-empty, min_frequency is the smallest  *)
(* frequency of a resident key and its bucket is non-empty.                *)
MinOf(S) == CHOOSE m \in S : \A x \in S : m <= x

C4_MinFrequencyExact ==
    ResidentLFU # {} =>
        /\ sim_lfu.min_frequency =
               MinOf({sim_lfu.cache_map[k] : k \in ResidentLFU})
        /\ sim_lfu.min_frequency \in DOMAIN sim_lfu.freq_map
        /\ sim_lfu.freq_map[sim_lfu.min_frequency] # <<>>

\* the pointer has advanced past an emptied bucket in a cache that evicted
C4_Witness ==
    /\ sim_lfu.min_frequency >= 2
    /\ Cardinality(ResidentLFU) >= 2
    /\ Evictions(cout.LFU) # {}
    /\ 1 \in DOMAIN sim_lfu.freq_map /\ sim_lfu.freq_map[1] = <<>>

(* C5: every resident LFU key occurs exactly once in the bucket of its     *)
(* directory frequency and in no other bucket; buckets hold resident keys  *)
(* only.                                                                    *)
C5_BucketsMatchDirectory ==
    LET cm == sim_lfu.cache_map
        fm == sim_lfu.freq_map
    IN  /\ \A k \in DOMAIN cm :
             /\ cm[k] \in DOMAIN fm
             /\ Cardinality({i \in 1..Len(fm[cm[k]]) : fm[cm[k]][i] = k}) = 1
             /\ \A f \in DOMAIN fm \ {cm[k]} : k \notin Range(fm[f])
        /\ \A f \in DOMAIN fm : Range(fm[f]) \subseteq DOMAIN cm

C5_Witness ==
    /\ pc = "done"
    /\ Evictions(cout.LFU) # {}
    /\ sim_lfu.hits >= 2
    /\ Cardinality({sim_lfu.cache_map[k] : k \in ResidentLFU}) >= 2

(* C6 as stated: min_frequency changes only in a hit that promotes the     *)
(* last member of the minimum bucket or in a miss that evicts.             *)
C6_PromotesLastOfMin(before, key) ==
    /\ key \in DOMAIN before.cache_map
    /\ before.cache_map[key] = before.min_frequency
    /\ before.freq_map[before.min_frequency] = <<key>>

C6_OnlyPromotionOrEvictingMiss ==
    [][sim_lfu'.min_frequency # sim_lfu.min_frequency =>
           /\ sim_lfu_access
           /\ \/ C6_PromotesLastOfMin(sim_lfu, accesses[it])
              \/ /\ Last(cout'.LFU).outcome = "MISS"
                 /\ Last(cout'.LFU).evicting]_vars

(* C6 amended: min_frequency changes only in a hit that promotes the last  *)
(* member of the minimum bucket or in a miss, with or without an eviction, *)
(* and every miss leaves it at 1.                                          *)
C6_OnlyPromotionOrMiss ==
    [][/\ sim_lfu'.min_frequency # sim_lfu.min_frequency =>
            /\ sim_lfu_access
            /\ \/ C6_PromotesLastOfMin(sim_lfu, accesses[it])
               \/ Last(cout'.LFU).outcome = "MISS"
       /\ sim_lfu_access /\ Last(cout'.LFU).outcome = "MISS" =>
            sim_lfu'.min_frequency = 1]_vars

\* a miss without eviction lowered the pointer, and a hit left it alone
C6_Witness ==
    /\ \E i \in 2..Len(cout.LFU) :
         /\ cout.LFU[i].outcome = "MISS" /\ ~cout.LFU[i].evicting
         /\ cout.LFU[i - 1].state.groups[1].freq >= 2
    /\ \E i \in 2..Len(cout.LFU) :
         /\ cout.LFU[i].outcome = "HIT"
         /\ cout.LFU[i].state.groups[1].freq =
                cout.LFU[i - 1].state.groups[1].freq

(* C7 as stated: in the demonstration run (capacity 4, the sequence of     *)
(* main) no two policies share a hit/miss pattern and no two end with the  *)
(* same resident set.                                                       *)
DemoDone ==
    pc = "done" /\ capacity = DemoCapacity /\ accesses = DemoAccesses

C7_AllThreeDiverge ==
    DemoDone =>
        /\ Outcomes(cout.LRU) # Outcomes(cout.FIFO)
        /\ Outcomes(cout.LRU) # Outcomes(cout.LFU)
        /\ Outcomes(cout.FIFO) # Outcomes(cout.LFU)
        /\ ResidentLRU # ResidentFIFO
        /\ ResidentLRU # ResidentLFU
        /\ ResidentFIFO # ResidentLFU

(* C7 amended: in the demonstration run FIFO differs from LRU and from LFU *)
(* in hit/miss pattern and in final resident set, while LRU and LFU have   *)
(* the same pattern and the same final resident set.                       *)
C7_OnlyFIFODiverges ==
    DemoDone =>
        /\ Outcomes(cout.LRU) # Outcomes(cout.FIFO)
        /\ Outcomes(cout.FIFO) # Outcomes(cout.LFU)
        /\ ResidentLRU # ResidentFIFO
        /\ ResidentFIFO # ResidentLFU
        /\ Outcomes(cout.LRU) = Outcomes(cout.LFU)
        /\ ResidentLRU = ResidentLFU

C7_Witness ==
    /\ DemoDone
    /\ \A p \in Policies : Len(cout[p]) = Len(DemoAccesses)
    /\ sim_lru.hits = 5 /\ sim_fifo.hits = 4 /\ sim_lfu.hits = 5

(* C8 as stated: an LRU access to the key accessed just before is a hit,   *)
(* and a key evicted by LRU has seen at least capacity misses on other     *)
(* keys since its last access, the evicting miss included.                 *)
C8_RepeatIsHit ==
    sim_lru_access /\ it > 1 /\ accesses[it] = accesses[it - 1] =>
        Last(cout'.LRU).outcome = "HIT"

C8_MissesSince(victim, n) ==
    Cardinality({j \in (LastTouch(victim, n) + 1)..(n - 1) :
                     cout.LRU[j].outcome = "MISS"}) + 1

C8_SafeForCapacityMisses ==
    [][/\ C8_RepeatIsHit
       /\ sim_lru_access /\ Last(cout'.LRU).evicting =>
            C8_MissesSince(Last(cout'.LRU).evicted, it) >= sim_lru.capacity]_vars

(* C8 amended: an LRU access to the key accessed just before is a hit, and *)
(* a key evicted by LRU has seen at least capacity accesses (hits or       *)
(* misses) to other keys since its last access, the evicting miss          *)
(* included.                                                                *)
C8_SafeForCapacityAccesses ==
    [][/\ C8_RepeatIsHit
       /\ sim_lru_access /\ Last(cout'.LRU).evicting =>
            /\ LastTouch(Last(cout'.LRU).evicted, it) > 0
            /\ it - LastTouch(Last(cout'.LRU).evicted, it) >= sim_lru.capacity
            /\ ResidentLRU \ ResidentLRU' = {Last(cout'.LRU).evicted}]_vars

\* a key evicted exactly at the capacity-th access after its own, with a
\* hit among those accesses, in a run that also repeats a key
C8_Witness ==
    /\ sim_lru.capacity >= 2
    /\ \E i \in Evictions(cout.LRU) :
         /\ i - LastTouch(cout.LRU[i].evicted, i) = sim_lru.capacity
         /\ \E j \in (LastTouch(cout.LRU[i].evicted, i) + 1)..(i - 1) :
                cout.LRU[j].outcome = "HIT"
    /\ \E i \in 2..Len(cout.LRU) :
         accesses[i] = accesses[i - 1] /\ cout.LRU[i].outcome = "HIT"

(* C9: in a FIFO run whose accesses are all misses, the i-th eviction      *)
(* removes the i-th key that was inserted.                                  *)
C9_AllMisses(log) == \A i \in 1..Len(log) : log[i].outcome = "MISS"

C9_FIFOEvictsInInsertionOrder ==
    [][sim_fifo_access /\ C9_AllMisses(cout'.FIFO)
       /\ Last(cout'.FIFO).evicting =>
           LET i == Cardinality(Evictions(cout.FIFO)) + 1
           IN  /\ ResidentFIFO \ ResidentFIFO' = {accesses[i]}
               /\ Last(cout'.FIFO).evicted = accesses[i]
               /\ Range(sim_fifo.fifo_queue) \ Range(sim_fifo'.fifo_queue)
                      = {accesses[i]}]_vars

C9_Witness ==
    /\ pc = "done"
    /\ C9_AllMisses(cout.FIFO)
    /\ Cardinality(Evictions(cout.FIFO)) >= 2
    /\ sim_fifo.capacity >= 2

(* C10: a FIFO hit changes the hit counter only; fifo_queue, cache_set and *)
(* misses are as before, and so is the key at the head of the queue.       *)
C10_FIFOHitChangesOnlyHits ==
    [][sim_fifo_access /\ accesses[it] \in ResidentFIFO =>
           /\ sim_fifo'.hits = sim_fifo.hits + 1
           /\ sim_fifo'.misses = sim_fifo.misses
           /\ sim_fifo'.fifo_queue = sim_fifo.fifo_queue
           /\ sim_fifo'.cache_set = sim_fifo.cache_set
           /\ sim_fifo'.capacity = sim_fifo.capacity
           /\ sim_fifo'.fifo_queue[1] = sim_fifo.fifo_queue[1]]_vars

\* a hit on the oldest key of a queue holding other keys as well
C10_Witness ==
    \E i \in 1..Len(cout.FIFO) :
        /\ cout.FIFO[i].outcome = "HIT"
        /\ Len(cout.FIFO[i].state) >= 2
        /\ cout.FIFO[i].state[1] = cout.FIFO[i].key

(* C11: every access raises exactly one of hits and misses by exactly 1 and *)
(* leaves the other alone, no step lowers either counter, and the counters *)
(* add up to the number of keys replayed so far (to the length of the      *)
(* sequence when the statistics are printed).                               *)
C11_OneCounter(before, after) ==
    \/ after.hits = before.hits + 1 /\ after.misses = before.misses
    \/ after.misses = before.misses + 1 /\ after.hits = before.hits

C11_NoDecrease(before, after) ==
    after.hits >= before.hits /\ after.misses >= before.misses

C11_CountersCountAccesses ==
    [][/\ sim_lru_access => C11_OneCounter(sim_lru, sim_lru')
       /\ sim_fifo_access => C11_OneCounter(sim_fifo, sim_fifo')
       /\ sim_lfu_access => C11_OneCounter(sim_lfu, sim_lfu')
       /\ C11_NoDecrease(sim_lru, sim_lru')
       /\ C11_NoDecrease(sim_fifo, sim_fifo')
       /\ C11_NoDecrease(sim_lfu, sim_lfu')
       /\ sim_lru'.hits + sim_lru'.misses = Len(cout'.LRU)
       /\ sim_fifo'.hits + sim_fifo'.misses = Len(cout'.FIFO)
       /\ sim_lfu'.hits + sim_lfu'.misses = Len(cout'.LFU)
       /\ \A p \in Policies :
            stats'[p].printed =>
                /\ stats'[p].hits + stats'[p].misses = Len(accesses)
                /\ stats'[p].total = Len(accesses)]_vars

C11_Witness ==
    /\ pc = "done"
    /\ Len(accesses) >= 3
    /\ \A p \in Policies :
         /\ stats[p].printed
         /\ stats[p].hits > 0 /\ stats[p].misses > 0
         /\ stats[p].total = Len(accesses)

(* C12: a policy constructed with requested capacity 0 has, after every    *)
(* prefix of every access sequence, the state and the output (outcomes,    *)
(* evictions, snapshots) of the same policy constructed with capacity 1,   *)
(* and never more than one resident key.                                    *)
C12_SameAs(cache, sim, log) ==
    run(cache, accesses, Len(log)) = [self |-> sim, log |-> log]

C12_ZeroCapacityIsOne ==
    capacity = 0 =>
        /\ C12_SameAs(CacheSimulator(1, policy_type), sim_lru, cout.LRU)
        /\ C12_SameAs(CacheSimulator(1, "FIFO"), sim_fifo, cout.FIFO)
        /\ C12_SameAs(CacheSimulator(1, "LFU"), sim_lfu, cout.LFU)
        /\ Cardinality(ResidentLRU) <= 1 /\ Len(sim_lru.lru_list) <= 1
        /\ Cardinality(ResidentFIFO) <= 1 /\ Len(sim_fifo.fifo_queue) <= 1
        /\ Cardinality(ResidentLFU) <= 1

C12_Witness ==
    /\ capacity = 0
    /\ pc = "done"
    /\ \A p \in Policies :
         /\ Evictions(cout[p]) # {}
         /\ \E i \in 1..Len(cout[p]) : cout[p][i].outcome = "HIT"

(* C13: a simulator constructed with a policy name other than LRU, FIFO    *)
(* and LFU runs to its statistics and has, after every prefix of the       *)
(* sequence, the state, outcomes, evictions and snapshots of a simulator   *)
(* constructed with "LRU", and prints the same final counters.             *)
C13_UnknownNameIsLRU ==
    policy_type \notin Policies =>
        /\ run(CacheSimulator(capacity, "LRU"), accesses, Len(cout.LRU))
               = [self |-> sim_lru, log |-> cout.LRU]
        /\ stats.LRU.printed =>
               stats.LRU =
                   print_stats(run(CacheSimulator(capacity, "LRU"), accesses,
                                   Len(accesses)).self)

\* a finished run under an unknown name whose outcomes are not those of FIFO
C13_Witness ==
    /\ policy_type = UnknownPolicy
    /\ pc = "done"
    /\ stats.LRU.printed
    /\ Evictions(cout.LRU) # {}
    /\ sim_lru.hits > 0
    /\ Outcomes(cout.LRU) # Outcomes(cout.FIFO)

(* C14: in every policy no key has two live entries: lru_list, fifo_queue  *)
(* and the LFU buckets taken together hold no key twice, and the keys of   *)
(* the index (LRU cache_map, FIFO cache_set, LFU cache_map) are exactly    *)
(* the keys of that sequence.                                               *)
NoDuplicate(s) == \A i, j \in 1..Len(s) : i # j => s[i] # s[j]

C14_OneEntryPerKey ==
    /\ NoDuplicate(sim_lru.lru_list)
    /\ sim_lru.cache_map = Range(sim_lru.lru_list)
    /\ NoDuplicate(sim_fifo.fifo_queue)
    /\ sim_fifo.cache_set = Range(sim_fifo.fifo_queue)
    /\ \A f \in DOMAIN sim_lfu.freq_map :
         /\ NoDuplicate(sim_lfu.freq_map[f])
         /\ \A g \in DOMAIN sim_lfu.freq_map \ {f} :
              Range(sim_lfu.freq_map[f]) \cap Range(sim_lfu.freq_map[g]) = {}
    /\ DOMAIN sim_lfu.cache_map =
           UNION {Range(sim_lfu.freq_map[f]) : f \in DOMAIN sim_lfu.freq_map}

\* every policy has re-inserted a key it had evicted and holds several keys
C14_Reinserted(log) ==
    \E i \in Evictions(log) :
        \E j \in (i + 1)..Len(log) :
            log[j].key = log[i].evicted /\ log[j].outcome = "MISS"

C14_Witness ==
    /\ pc = "done"
    /\ \A p \in Policies : C14_Reinserted(cout[p])
    /\ Len(sim_lru.lru_list) >= 2
    /\ Len(sim_fifo.fifo_queue) >= 2
    /\ Cardinality(ResidentLFU) >= 2

(* C15: in the demonstration run the final access, to C, is a miss under   *)
(* LRU that evicts B and a miss under FIFO that evicts A.                  *)
C15_FinalAccessMisses ==
    DemoDone =>
        /\ Last(cout.LRU).key = "C"
        /\ Last(cout.LRU).outcome = "MISS" /\ Last(cout.LRU).evicted = "B"
        /\ Last(cout.FIFO).key = "C"
        /\ Last(cout.FIFO).outcome = "MISS" /\ Last(cout.FIFO).evicted = "A"

\* what the run does instead: the final access hits in both policies, and
\* the miss that evicts B under LRU and A under FIFO is the twelfth, to E
C15_FinalAccessHits ==
    DemoDone =>
        /\ Last(cout.LRU).outcome = "HIT" /\ ~Last(cout.LRU).evicting
        /\ Last(cout.FIFO).outcome = "HIT" /\ ~Last(cout.FIFO).evicting
        /\ cout.LRU[12].key = "E" /\ cout.LRU[12].outcome = "MISS"
        /\ cout.LRU[12].evicted = "B"
        /\ cout.FIFO[12].key = "E" /\ cout.FIFO[12].outcome = "MISS"
        /\ cout.FIFO[12].evicted = "A"

(* C16: the statistics of each policy give the hit rate as                 *)
(* 100 * hits / (hits + misses) when an access was made and as exactly 0   *)
(* when none was, and never carry out a division by 0.                     *)
C16_RateOf(st, self) ==
    /\ st.hit_rate.den # 0
    /\ IF self.hits + self.misses > 0
       THEN /\ st.hit_rate.divided
            /\ st.hit_rate.num * (self.hits + self.misses)
                   = 100 * self.hits * st.hit_rate.den
       ELSE /\ ~st.hit_rate.divided
            /\ st.hit_rate.num = 0

C16_HitRateDefined ==
    /\ stats.LRU.printed => C16_RateOf(stats.LRU, sim_lru)
    /\ stats.FIFO.printed => C16_RateOf(stats.FIFO, sim_fifo)
    /\ stats.LFU.printed => C16_RateOf(stats.LFU, sim_lfu)

\* statistics of a run with hits and misses, the rate not a whole percentage
C16_Witness ==
    /\ pc = "done"
    /\ \A p \in Policies :
         /\ stats[p].printed /\ stats[p].hit_rate.divided
         /\ stats[p].hits > 0 /\ stats[p].misses > 0
         /\ stats[p].hit_rate.num % stats[p].hit_rate.den # 0

(* C17: print_cache_state changes nothing in the policy it is called on   *)
(* (resident keys, order, frequencies, min_frequency, hits, misses), so a  *)
(* snapshot taken after the one that ends an access, and one taken after   *)
(* that, show what that one showed.                                         *)
C17_SnapshotReadsOnly ==
    /\ LRU_after_print(sim_lru) = sim_lru
    /\ LRU_print_cache_state(LRU_after_print(sim_lru))
           = LRU_print_cache_state(sim_lru)
    /\ cout.LRU # <<>> => LRU_print_cache_state(sim_lru) = Last(cout.LRU).state
    /\ FIFO_after_print(sim_fifo) = sim_fifo
    /\ FIFO_print_cache_state(FIFO_after_print(sim_fifo))
           = FIFO_print_cache_state(sim_fifo)
    /\ cout.FIFO # <<>> =>
           FIFO_print_cache_state(sim_fifo) = Last(cout.FIFO).state
    /\ LFU_after_print(sim_lfu) = sim_lfu
    /\ LFU_print_cache_state(LFU_after_print(sim_lfu))
           = LFU_print_cache_state(sim_lfu)
    /\ cout.LFU # <<>> => LFU_print_cache_state(sim_lfu) = Last(cout.LFU).state

C17_Witness ==
    /\ pc = "done"
    /\ Len(accesses) >= 2
    /\ Len(Last(cout.LRU).state) >= 2
    /\ Len(Last(cout.FIFO).state) >= 2
    /\ Len(Last(cout.LFU).state.groups) >= 2
    /\ Last(cout.LRU).state # Last(cout.FIFO).state

(* C18: after every LRU access the recency list, and the snapshot, hold    *)
(* the distinct keys accessed so far in order of their latest access,      *)
(* latest first, cut to the first capacity keys; a hit puts its key first  *)
(* and keeps the order of the other keys.                                   *)
C18_Seen(n) == {accesses[i] : i \in 1..n}

C18_Rank(k, n) ==
    1 + Cardinality({j \in C18_Seen(n) :
                         LastTouch(j, n + 1) > LastTouch(k, n + 1)})

C18_ByRecency(n, c) ==
    LET len == IF Cardinality(C18_Seen(n)) < c
               THEN Cardinality(C18_Seen(n)) ELSE c
    IN  [i \in 1..len |-> CHOOSE k \in C18_Seen(n) : C18_Rank(k, n) = i]

C18_LRUListIsRecencyOrder ==
    [][sim_lru_access =>
           /\ sim_lru'.lru_list = C18_ByRecency(it, EffectiveCapacity)
           /\ Last(cout'.LRU).state = C18_ByRecency(it, EffectiveCapacity)
           /\ accesses[it] \in ResidentLRU =>
                  sim_lru'.lru_list =
                      <<accesses[it]>> \o
                      SelectSeq(sim_lru.lru_list,
                                LAMBDA k : k # accesses[it])]_vars

\* after an eviction, a hit on the key at the back of a list of three or more
C18_Witness ==
    /\ Evictions(cout.LRU) # {}
    /\ \E i \in 2..Len(cout.LRU) :
         /\ cout.LRU[i].outcome = "HIT"
         /\ Len(cout.LRU[i - 1].state) >= 3
         /\ Last(cout.LRU[i - 1].state) = cout.LRU[i].key
         /\ cout.LRU[i].state[1] = cout.LRU[i].key

(* C19: whenever an access takes the eviction branch, in any policy and    *)
(* for any requested capacity, zero included, the structure it reads and   *)
(* pops (lru_list, fifo_queue, freq_map[min_frequency]) is non-empty and   *)
(* exactly one resident key is removed.                                     *)
C19_Evicts(line, nonEmpty, before, after, key) ==
    line.evicting =>
        /\ nonEmpty
        /\ ~line.from_empty
        /\ Cardinality(before \ after) = 1
        /\ before \ after = {line.evicted}
        /\ after = (before \ {line.evicted}) \cup {key}

C19_NoEvictionFromEmpty ==
    [][/\ sim_lru_access =>
            C19_Evicts(Last(cout'.LRU), sim_lru.lru_list # <<>>,
                       ResidentLRU, ResidentLRU', accesses[it])
       /\ sim_fifo_access =>
            C19_Evicts(Last(cout'.FIFO), sim_fifo.fifo_queue # <<>>,
                       ResidentFIFO, ResidentFIFO', accesses[it])
       /\ sim_lfu_access =>
            C19_Evicts(Last(cout'.LFU),
                       /\ sim_lfu.min_frequency \in DOMAIN sim_lfu.freq_map
                       /\ sim_lfu.freq_map[sim_lfu.min_frequency] # <<>>,
                       ResidentLFU, ResidentLFU', accesses[it])]_vars

\* requested capacity 0: every policy has evicted at least twice
C19_Witness ==
    /\ capacity = 0
    /\ pc = "done"
    /\ \A p \in Policies : Cardinality(Evictions(cout[p])) >= 2

(* C20: in every LFU state the scan of print_cache_state, upward from      *)
(* min_frequency until cache_map.size() keys are counted, terminates and   *)
(* shows every resident key exactly once, groups in ascending frequency,   *)
(* each key under its directory frequency, the most recently touched key   *)
(* of a group first; no resident key has a frequency below min_frequency.  *)
C20_Shown(groups, k) ==
    UNION {{<<g, i>> : i \in {j \in 1..Len(groups[g].keys) :
                                  groups[g].keys[j] = k}} :
               g \in 1..Len(groups)}

C20_ScanOK(self, n) ==
    LET shown == LFU_print_cache_state(self)
        groups == shown.groups
    IN  /\ shown.terminates
        /\ \A k \in DOMAIN self.cache_map :
             /\ Cardinality(C20_Shown(groups, k)) = 1
             /\ self.cache_map[k] >= self.min_frequency
        /\ \A g \in 1..Len(groups) :
             /\ Range(groups[g].keys) \subseteq DOMAIN self.cache_map
             /\ \A k \in Range(groups[g].keys) :
                  self.cache_map[k] = groups[g].freq
             /\ \A h \in (g + 1)..Len(groups) :
                  groups[g].freq < groups[h].freq
             /\ \A i, j \in 1..Len(groups[g].keys) :
                  i < j => LastTouch(groups[g].keys[i], n + 1)
                               > LastTouch(groups[g].keys[j], n + 1)

C20_LFUSnapshotScan ==
    /\ C20_ScanOK(sim_lfu, Len(cout.LFU))
    /\ \A i \in 1..Len(cout.LFU) : cout.LFU[i].state.terminates

\* the scan passes an emptied bucket between two groups, one of them tied
C20_Witness ==
    LET groups == LFU_print_cache_state(sim_lfu).groups
    IN  /\ Len(groups) >= 2
        /\ Len(groups[1].keys) >= 2
        /\ groups[2].freq > groups[1].freq + 1
        /\ Evictions(cout.LFU) # {}

====
